---- MODULE Spec2Model ----
(***************************************************************************)
(* A model of utils/cec-follower/cec-follower.cpp:                         *)
(*   - sad_encode, the Short Audio Descriptor packer (SpecSad);            *)
(*   - cec_named_ioctl, the adapter gateway that maintains la_info[].ts    *)
(*     (SpecTracker);                                                      *)
(*   - the option loop of main, in particular the --ignore rules (SpecCli).*)
(***************************************************************************)
EXTENDS Integers, Sequences, FiniteSets, TLC

VARIABLES
    \* sad_encode
    sad,            \* the struct short_audio_desc handed to sad_encode
    descriptor,     \* *descriptor, the __u32 written by sad_encode
    encoded,        \* TRUE once sad_encode has returned
    \* cec_named_ioctl
    la_info,        \* la_info[a].ts for a in 0..15
    pc,             \* position inside cec_named_ioctl
    call,           \* request, ioctl outcome and message of the current call
    ret,            \* value returned by the last completed cec_named_ioctl
    nioctl,         \* ioctl() invocations made by the current call
    lastq,          \* history: timestamp of the last qualifying event per address
    \* main
    mpc,            \* position inside main
    nopts,          \* options consumed by getopt_long so far
    ch,             \* the option getopt_long returned last
    optarg,         \* argument of the option being processed
    ignore_la,      \* node.ignore_la[0..15]
    ignore_opcode,  \* node.ignore_opcode[0..255]
    exit_status,    \* process exit status once main has returned / exited
    fd,             \* the adapter file descriptor (-1: not opened)
    adapter_ops     \* adapter operations issued by main

sadvars == <<sad, descriptor, encoded>>
trkvars == <<la_info, pc, call, ret, nioctl, lastq>>
clivars == <<mpc, nopts, ch, optarg, ignore_la, ignore_opcode, exit_status, fd, adapter_ops>>
vars == <<sad, descriptor, encoded, la_info, pc, call, ret, nioctl, lastq,
          mpc, nopts, ch, optarg, ignore_la, ignore_opcode, exit_status, fd, adapter_ops>>

(***************************************************************************)
(* C integer operators on non-negative values.                             *)
(***************************************************************************)
RECURSIVE BitAnd(_, _)
BitAnd(a, b) ==
    IF a = 0 \/ b = 0 THEN 0
    ELSE (a % 2) * (b % 2) + 2 * BitAnd(a \div 2, b \div 2)

RECURSIVE BitOr(_, _)
BitOr(a, b) ==
    IF a = 0 THEN b
    ELSE IF b = 0 THEN a
    ELSE (IF a % 2 = 1 \/ b % 2 = 1 THEN 1 ELSE 0) + 2 * BitOr(a \div 2, b \div 2)

RECURSIVE Shl(_, _)
Shl(a, n) == IF n = 0 THEN a ELSE Shl(2 * a, n - 1)

\* the low eight bits of an int in two's complement (conversion to __u8)
U8(x) == x % 256

(***************************************************************************)
(* Constants of cec-follower.h used by sad_encode.                         *)
(***************************************************************************)
SAD_FMT_CODE_LPCM == 1
SAD_FMT_CODE_WMA_PRO == 14
SAD_FMT_CODE_EXTENDED == 15
SAD_EXT_TYPE_MPEG_H_3D_AUDIO == 11
SAD_EXT_TYPE_AC_4 == 12
SAD_EXT_TYPE_LPCM_3D_AUDIO == 13

(***************************************************************************)
(* sad_encode                                                              *)
(***************************************************************************)
\* b1 = (num_channels - 1) & 0x07; b1 |= (format_code & 0x0f) << 3;
sad_b1(s) ==
    BitOr(BitAnd(U8(s.num_channels - 1), 7),
          U8(Shl(BitAnd(s.format_code, 15), 3)))

\* b2 = sample_freq_mask;
sad_b2(s) == U8(s.sample_freq_mask)

sad_b3_ext_mps_leaks(s) ==
    LET t == s.extension_type_code
        b == U8(Shl(BitAnd(t, 31), 3))
    IN  IF t \in {4, 5, 6, 8, 10}
        THEN BitOr(BitOr(b, Shl(BitAnd(s.frame_length_mask, 3), 1)),
                   BitAnd(s.mps, 1))
        ELSE IF t \in {SAD_EXT_TYPE_MPEG_H_3D_AUDIO, SAD_EXT_TYPE_AC_4}
        THEN BitOr(BitOr(b, BitAnd(s.format_dependent, 7)),
                   BitAnd(s.bit_depth_mask, 7))
        ELSE IF t = SAD_EXT_TYPE_LPCM_3D_AUDIO
        THEN BitOr(b, BitAnd(s.bit_depth_mask, 7))
        ELSE b

\* case SAD_FMT_CODE_EXTENDED: the nested switch on extension_type_code
sad_b3_ext(s) ==
    LET t == s.extension_type_code
        b == U8(Shl(BitAnd(t, 31), 3))
    IN  IF t \in {4, 5, 6}
        THEN BitOr(b, Shl(BitAnd(s.frame_length_mask, 3), 1))
        ELSE IF t \in {8, 10}
        THEN BitOr(BitOr(b, Shl(BitAnd(s.frame_length_mask, 3), 1)),
                   BitAnd(s.mps, 1))
        ELSE IF t \in {SAD_EXT_TYPE_MPEG_H_3D_AUDIO, SAD_EXT_TYPE_AC_4}
        THEN \* falls through into the L-PCM 3D Audio case
             BitOr(BitOr(b, BitAnd(s.format_dependent, 7)),
                   BitAnd(s.bit_depth_mask, 7))
        ELSE IF t = SAD_EXT_TYPE_LPCM_3D_AUDIO
        THEN BitOr(b, BitAnd(s.bit_depth_mask, 7))
        ELSE b

sad_b3_wrong_field(s) ==
    LET c == s.format_code
    IN  IF c = SAD_FMT_CODE_LPCM THEN BitAnd(s.bit_depth_mask, 7)
        ELSE IF c \in 2..8 THEN U8(s.format_dependent)
        ELSE IF c \in 9..13 THEN U8(s.format_dependent)
        ELSE IF c = SAD_FMT_CODE_WMA_PRO THEN BitAnd(s.wma_profile, 3)
        ELSE IF c = SAD_FMT_CODE_EXTENDED THEN sad_b3_ext(s)
        ELSE 0

sad_b3_default_bitrate(s) ==
    LET c == s.format_code
    IN  IF c = SAD_FMT_CODE_LPCM THEN BitAnd(s.bit_depth_mask, 7)
        ELSE IF c \in 2..8 THEN U8(s.max_bitrate)
        ELSE IF c \in 9..13 THEN U8(s.format_dependent)
        ELSE IF c = SAD_FMT_CODE_WMA_PRO THEN BitAnd(s.wma_profile, 3)
        ELSE IF c = SAD_FMT_CODE_EXTENDED THEN sad_b3_ext(s)
        ELSE U8(s.max_bitrate)

\* b3 = 0; switch (sad->format_code) { ... }
sad_b3(s) ==
    LET c == s.format_code
    IN  IF c = SAD_FMT_CODE_LPCM THEN BitAnd(s.bit_depth_mask, 7)
        ELSE IF c \in 2..8 THEN U8(s.max_bitrate)
        ELSE IF c \in 9..13 THEN U8(s.format_dependent)
        ELSE IF c = SAD_FMT_CODE_WMA_PRO THEN BitAnd(s.wma_profile, 3)
        ELSE IF c = SAD_FMT_CODE_EXTENDED THEN sad_b3_ext(s)
        ELSE 0

\* *descriptor = (b1 << 16) | (b2 << 8) | b3;
sad_encode(s) ==
    BitOr(BitOr(Shl(sad_b1(s), 16), Shl(sad_b2(s), 8)), sad_b3(s))

\* byte k (1..3) of a packed descriptor, and bit n of a value
DescByte(d, k) == (d \div Shl(1, 8 * (3 - k))) % 256
Bit(v, n) == (v \div Shl(1, n)) % 2

(***************************************************************************)
(* Descriptors handed to sad_encode.  Every field is a __u8; the sets hold *)
(* values inside and outside the bits each mask keeps.                     *)
(***************************************************************************)
NumChannelsIn == {0, 2, 8}
FormatCodeIn == 0..15 \cup {17}
SampleFreqIn == {0, 7, 255}
BitDepthIn == {4, 250}
MaxBitrateIn == {0, 200}
FormatDependentIn == {1, 255}
WmaProfileIn == {2, 253}
ExtTypeIn == {0, 4, 5, 6, 7, 8, 10, 11, 12, 13, 36}
ExtTypeOtherIn == {0, 13}
FrameLengthIn == {2, 253}
MpsIn == {1, 254}

SadIn ==
    { s \in [num_channels : NumChannelsIn, format_code : FormatCodeIn,
             sample_freq_mask : SampleFreqIn, bit_depth_mask : BitDepthIn,
             max_bitrate : MaxBitrateIn, format_dependent : FormatDependentIn,
             wma_profile : WmaProfileIn, extension_type_code : ExtTypeIn,
             frame_length_mask : FrameLengthIn, mps : MpsIn] :
        s.format_code # SAD_FMT_CODE_EXTENDED => s.extension_type_code \in ExtTypeOtherIn }

SadEncode ==
    /\ ~encoded
    /\ descriptor' = sad_encode(sad)
    /\ encoded' = TRUE
    /\ UNCHANGED <<sad>>
    /\ UNCHANGED trkvars
    /\ UNCHANGED clivars

(***************************************************************************)
(* Constants and helpers of linux/cec.h used by cec_named_ioctl.           *)
(***************************************************************************)
CEC_TX_STATUS_OK == 1
CEC_RX_STATUS_OK == 1
CEC_RX_STATUS_FEATURE_ABORT == 4
CEC_LOG_ADDR_UNREGISTERED == 15

\* msg->msg[0] >> 4, msg->msg[0] & 0xf, (msg->msg[0] & 0xf) == 0xf
cec_msg_initiator(c) == c.msg0 \div 16
cec_msg_destination(c) == BitAnd(c.msg0, 15)
cec_msg_is_broadcast(c) == BitAnd(c.msg0, 15) = 15

(***************************************************************************)
(* cec_named_ioctl                                                         *)
(***************************************************************************)
LogAddrs == 0..15

\* variant: the ioctl result is not checked before the tracker is touched
la_info_update_ignores_retval(la, c) ==
    LET afterTx ==
          IF /\ c.request = "CEC_TRANSMIT"
             /\ BitAnd(c.tx_status, CEC_TX_STATUS_OK) # 0
             /\ ~cec_msg_is_broadcast(c)
          THEN IF c.timeout # 0
               THEN IF BitAnd(c.rx_status,
                              BitOr(CEC_RX_STATUS_OK, CEC_RX_STATUS_FEATURE_ABORT)) # 0
                    THEN [la EXCEPT ![cec_msg_initiator(c)] = c.rx_ts]
                    ELSE la
               ELSE [la EXCEPT ![cec_msg_destination(c)] = c.tx_ts]
          ELSE la
    IN  IF /\ c.request = "CEC_RECEIVE"
           /\ cec_msg_initiator(c) # CEC_LOG_ADDR_UNREGISTERED
           /\ BitAnd(c.rx_status, CEC_RX_STATUS_OK) # 0
        THEN [afterTx EXCEPT ![cec_msg_initiator(c)] = c.rx_ts]
        ELSE afterTx

\* variant: a receive from the unregistered address is tracked too
la_info_update_no_unreg_check(la, c) ==
    IF c.retval # 0 THEN la
    ELSE
      LET afterTx ==
            IF /\ c.request = "CEC_TRANSMIT"
               /\ BitAnd(c.tx_status, CEC_TX_STATUS_OK) # 0
               /\ ~cec_msg_is_broadcast(c)
            THEN IF c.timeout # 0
                 THEN IF BitAnd(c.rx_status,
                                BitOr(CEC_RX_STATUS_OK, CEC_RX_STATUS_FEATURE_ABORT)) # 0
                      THEN [la EXCEPT ![cec_msg_initiator(c)] = c.rx_ts]
                      ELSE la
                 ELSE [la EXCEPT ![cec_msg_destination(c)] = c.tx_ts]
            ELSE la
      IN  IF /\ c.request = "CEC_RECEIVE"
             /\ BitAnd(c.rx_status, CEC_RX_STATUS_OK) # 0
          THEN [afterTx EXCEPT ![cec_msg_initiator(c)] = c.rx_ts]
          ELSE afterTx

\* variant: a reply-expecting transmit without a reply falls back to the
\* destination and tx_ts
la_info_update_dest_on_timeout(la, c) ==
    IF c.retval # 0 THEN la
    ELSE
      LET afterTx ==
            IF /\ c.request = "CEC_TRANSMIT"
               /\ BitAnd(c.tx_status, CEC_TX_STATUS_OK) # 0
               /\ ~cec_msg_is_broadcast(c)
            THEN IF /\ c.timeout # 0
                    /\ BitAnd(c.rx_status,
                              BitOr(CEC_RX_STATUS_OK, CEC_RX_STATUS_FEATURE_ABORT)) # 0
                 THEN [la EXCEPT ![cec_msg_initiator(c)] = c.rx_ts]
                 ELSE [la EXCEPT ![cec_msg_destination(c)] = c.tx_ts]
            ELSE la
      IN  IF /\ c.request = "CEC_RECEIVE"
             /\ cec_msg_initiator(c) # CEC_LOG_ADDR_UNREGISTERED
             /\ BitAnd(c.rx_status, CEC_RX_STATUS_OK) # 0
          THEN [afterTx EXCEPT ![cec_msg_initiator(c)] = c.rx_ts]
          ELSE afterTx

\* variant: a transmit that expected no reply records rx_ts
la_info_update_rx_ts_for_noreply(la, c) ==
    IF c.retval # 0 THEN la
    ELSE
      LET afterTx ==
            IF /\ c.request = "CEC_TRANSMIT"
               /\ BitAnd(c.tx_status, CEC_TX_STATUS_OK) # 0
               /\ ~cec_msg_is_broadcast(c)
            THEN IF c.timeout # 0
                 THEN IF BitAnd(c.rx_status,
                                BitOr(CEC_RX_STATUS_OK, CEC_RX_STATUS_FEATURE_ABORT)) # 0
                      THEN [la EXCEPT ![cec_msg_initiator(c)] = c.rx_ts]
                      ELSE la
                 ELSE [la EXCEPT ![cec_msg_destination(c)] = c.rx_ts]
            ELSE la
      IN  IF /\ c.request = "CEC_RECEIVE"
             /\ cec_msg_initiator(c) # CEC_LOG_ADDR_UNREGISTERED
             /\ BitAnd(c.rx_status, CEC_RX_STATUS_OK) # 0
          THEN [afterTx EXCEPT ![cec_msg_initiator(c)] = c.rx_ts]
          ELSE afterTx

\* variant: a receive tests the same status mask as a transmit's reply
la_info_update_rx_abort_counts(la, c) ==
    IF c.retval # 0 THEN la
    ELSE
      LET afterTx ==
            IF /\ c.request = "CEC_TRANSMIT"
               /\ BitAnd(c.tx_status, CEC_TX_STATUS_OK) # 0
               /\ ~cec_msg_is_broadcast(c)
            THEN IF c.timeout # 0
                 THEN IF BitAnd(c.rx_status,
                                BitOr(CEC_RX_STATUS_OK, CEC_RX_STATUS_FEATURE_ABORT)) # 0
                      THEN [la EXCEPT ![cec_msg_initiator(c)] = c.rx_ts]
                      ELSE la
                 ELSE [la EXCEPT ![cec_msg_destination(c)] = c.tx_ts]
            ELSE la
      IN  IF /\ c.request = "CEC_RECEIVE"
             /\ cec_msg_initiator(c) # CEC_LOG_ADDR_UNREGISTERED
             /\ BitAnd(c.rx_status,
                       BitOr(CEC_RX_STATUS_OK, CEC_RX_STATUS_FEATURE_ABORT)) # 0
          THEN [afterTx EXCEPT ![cec_msg_initiator(c)] = c.rx_ts]
          ELSE afterTx

\* variant: a reply-expecting transmit without a reply clears the entry
la_info_update_clears_on_no_reply(la, c) ==
    IF c.retval # 0 THEN la
    ELSE
      LET afterTx ==
            IF /\ c.request = "CEC_TRANSMIT"
               /\ BitAnd(c.tx_status, CEC_TX_STATUS_OK) # 0
               /\ ~cec_msg_is_broadcast(c)
            THEN IF c.timeout # 0
                 THEN IF BitAnd(c.rx_status,
                                BitOr(CEC_RX_STATUS_OK, CEC_RX_STATUS_FEATURE_ABORT)) # 0
                      THEN [la EXCEPT ![cec_msg_initiator(c)] = c.rx_ts]
                      ELSE [la EXCEPT ![cec_msg_initiator(c)] = 0]
                 ELSE [la EXCEPT ![cec_msg_destination(c)] = c.tx_ts]
            ELSE la
      IN  IF /\ c.request = "CEC_RECEIVE"
             /\ cec_msg_initiator(c) # CEC_LOG_ADDR_UNREGISTERED
             /\ BitAnd(c.rx_status, CEC_RX_STATUS_OK) # 0
          THEN [afterTx EXCEPT ![cec_msg_initiator(c)] = c.rx_ts]
          ELSE afterTx

\* lines 277-294: the tracker after the ioctl has returned with outcome c
la_info_update(la, c) ==
    IF c.retval # 0 THEN la
    ELSE
      LET afterTx ==
            IF /\ c.request = "CEC_TRANSMIT"
               /\ BitAnd(c.tx_status, CEC_TX_STATUS_OK) # 0
               /\ ~cec_msg_is_broadcast(c)
            THEN IF c.timeout # 0
                 THEN IF BitAnd(c.rx_status,
                                BitOr(CEC_RX_STATUS_OK, CEC_RX_STATUS_FEATURE_ABORT)) # 0
                      THEN [la EXCEPT ![cec_msg_initiator(c)] = c.rx_ts]
                      ELSE la
                 ELSE [la EXCEPT ![cec_msg_destination(c)] = c.tx_ts]
            ELSE la
      IN  IF /\ c.request = "CEC_RECEIVE"
             /\ cec_msg_initiator(c) # CEC_LOG_ADDR_UNREGISTERED
             /\ BitAnd(c.rx_status, CEC_RX_STATUS_OK) # 0
          THEN [afterTx EXCEPT ![cec_msg_initiator(c)] = c.rx_ts]
          ELSE afterTx

\* lines 272, 296: e = retval == 0 ? 0 : errno; return retval == -1 ? e : (retval ? -1 : 0)
cec_named_ioctl_ret(c) ==
    LET e == IF c.retval = 0 THEN 0 ELSE c.errno
    IN  IF c.retval = -1 THEN e ELSE IF c.retval # 0 THEN -1 ELSE 0

(***************************************************************************)
(* What the adapter can hand back from ioctl().                            *)
(***************************************************************************)
MaxTs == 2
Timestamps == 0..MaxTs
ActiveLAs == {0, 3, 15}
Msg0In == { 16 * i + d : i \in ActiveLAs, d \in ActiveLAs }
TxStatusIn == {1, 3, 36}       \* OK, OK|ARB_LOST, NACK|MAX_RETRIES
RxStatusIn == {0, 1, 2, 4, 5}  \* none, OK, TIMEOUT, FEATURE_ABORT, OK|FEATURE_ABORT
TimeoutIn == {0, 1000}
ErrnoIn == {5, 22}             \* EIO, EINVAL: errno is positive after a failed ioctl
MsgRequests == {"CEC_TRANSMIT", "CEC_RECEIVE"}

NoCall == [request |-> "none", retval |-> 0, errno |-> 0, msg0 |-> 0, tx_status |-> 0,
           rx_status |-> 0, timeout |-> 0, rx_ts |-> 0, tx_ts |-> 0]

\* ioctl() at line 270 returns: the kernel has filled in *parm
IoctlReturns ==
    /\ pc = "idle"
    /\ \E rq \in MsgRequests \cup {"CEC_ADAP_G_CAPS"}, rv \in {0, -1, 1}, en \in ErrnoIn :
         /\ rv = 0 => en = 5  \* errno is not read when the ioctl succeeded
         /\ rv = 1 => en = 5  \* nor used for a return value other than -1
         /\ IF rq \in MsgRequests
            THEN \E m \in Msg0In, tx \in TxStatusIn, rx \in RxStatusIn,
                    to \in TimeoutIn, rts \in Timestamps, tts \in Timestamps :
                   call' = [request |-> rq, retval |-> rv, errno |-> en, msg0 |-> m,
                            tx_status |-> tx, rx_status |-> rx, timeout |-> to,
                            rx_ts |-> rts, tx_ts |-> tts]
            ELSE call' = [NoCall EXCEPT !.request = rq, !.retval = rv, !.errno = en]
    /\ pc' = "returned"
    /\ nioctl' = nioctl + 1
    /\ UNCHANGED <<la_info, ret, lastq>>
    /\ UNCHANGED sadvars
    /\ UNCHANGED clivars

\* The qualifying event of a completed call, as <<address, timestamp>>: a
\* successful unicast transmit that expected no reply (destination, tx_ts), one
\* that expected a reply and got it or a feature abort (initiator, rx_ts), a
\* clean receive from a registered address (initiator, rx_ts).
QualifyingEvents(c) ==
    IF c.retval # 0 THEN {}
    ELSE IF /\ c.request = "CEC_TRANSMIT"
            /\ c.tx_status % 2 = 1
            /\ c.msg0 % 16 # 15
            /\ c.timeout = 0
    THEN {<<c.msg0 % 16, c.tx_ts>>}
    ELSE IF /\ c.request = "CEC_TRANSMIT"
            /\ c.tx_status % 2 = 1
            /\ c.msg0 % 16 # 15
            /\ c.timeout # 0
            /\ c.rx_status \in {1, 4, 5}
    THEN {<<c.msg0 \div 16, c.rx_ts>>}
    ELSE IF /\ c.request = "CEC_RECEIVE"
            /\ c.msg0 \div 16 # 15
            /\ c.rx_status \in {1, 5}
    THEN {<<c.msg0 \div 16, c.rx_ts>>}
    ELSE {}

\* lines 272-296: the rest of cec_named_ioctl after ioctl() has returned
CecNamedIoctl ==
    /\ pc = "returned"
    /\ la_info' = la_info_update(la_info, call)
    /\ ret' = cec_named_ioctl_ret(call)
    /\ lastq' = LET ev == QualifyingEvents(call)
                IN  [a \in LogAddrs |->
                       IF \E e \in ev : e[1] = a
                       THEN (CHOOSE e \in ev : e[1] = a)[2]
                       ELSE lastq[a]]
    /\ pc' = "done"
    /\ UNCHANGED <<call, nioctl>>
    /\ UNCHANGED sadvars
    /\ UNCHANGED clivars

\* the caller takes the return value; parm and the locals go out of scope
IoctlCallerResumes ==
    /\ pc = "done"
    /\ pc' = "idle"
    /\ call' = NoCall
    /\ ret' = 0
    /\ nioctl' = 0
    /\ UNCHANGED <<la_info, lastq>>
    /\ UNCHANGED sadvars
    /\ UNCHANGED clivars

(***************************************************************************)
(* Initial states and specifications.                                      *)
(***************************************************************************)
\* Each specification runs one component; the variables of the other two are
\* parked at a fixed value.
SadOff ==
    /\ sad = <<>>
    /\ descriptor = 0
    /\ encoded = TRUE

TrkOff ==
    /\ la_info = <<>>
    /\ pc = "off"
    /\ call = <<>>
    /\ ret = 0
    /\ nioctl = 0
    /\ lastq = <<>>

CliOff ==
    /\ mpc = "off"
    /\ nopts = 0
    /\ ch = "none"
    /\ optarg = <<>>
    /\ ignore_la = <<>>
    /\ ignore_opcode = <<>>
    /\ exit_status = -1
    /\ fd = -1
    /\ adapter_ops = 0

\* sad_encode is handed one descriptor
InitSad ==
    /\ sad \in SadIn
    /\ descriptor = 0
    /\ encoded = FALSE
    /\ TrkOff
    /\ CliOff

NextSad == SadEncode

SpecSad == InitSad /\ [][NextSad]_vars

\* la_info is a zero-initialised global; no call is in progress
InitTracker ==
    /\ la_info = [a \in LogAddrs |-> 0]
    /\ pc = "idle"
    /\ call = NoCall
    /\ ret = 0
    /\ nioctl = 0
    /\ lastq = [a \in LogAddrs |-> 0]
    /\ SadOff
    /\ CliOff

NextTracker == IoctlReturns \/ CecNamedIoctl \/ IoctlCallerResumes

SpecTracker == InitTracker /\ [][NextTracker]_vars

(***************************************************************************)
(* main: the option loop.  C strings are sequences of characters.          *)
(***************************************************************************)
DigitOf == [c \in {"0", "1", "2", "3", "4", "5", "6", "7", "8", "9",
                   "a", "b", "c", "d", "e", "f"} |->
              CASE c = "0" -> 0 [] c = "1" -> 1 [] c = "2" -> 2 [] c = "3" -> 3
                [] c = "4" -> 4 [] c = "5" -> 5 [] c = "6" -> 6 [] c = "7" -> 7
                [] c = "8" -> 8 [] c = "9" -> 9 [] c = "a" -> 10 [] c = "b" -> 11
                [] c = "c" -> 12 [] c = "d" -> 13 [] c = "e" -> 14 [] c = "f" -> 15]

IsDigit(s, i, base) ==
    /\ i <= Len(s)
    /\ s[i] \in DOMAIN DigitOf
    /\ DigitOf[s[i]] < base

RECURSIVE ParseDigits(_, _, _, _)
ParseDigits(s, i, base, acc) ==
    IF IsDigit(s, i, base)
    THEN ParseDigits(s, i + 1, base, acc * base + DigitOf[s[i]])
    ELSE acc

\* strtoul(s, NULL, 0) for unsigned numerals below 2^31: "0x" selects base 16,
\* a leading "0" base 8, anything else base 10; conversion stops at the first
\* character that is no digit of the base, and no digits at all give 0.
strtoul(s) ==
    IF Len(s) >= 3 /\ s[1] = "0" /\ s[2] = "x" /\ IsDigit(s, 3, 16)
    THEN ParseDigits(s, 3, 16, 0)
    ELSE IF Len(s) >= 1 /\ s[1] = "0"
    THEN ParseDigits(s, 1, 8, 0)
    ELSE ParseDigits(s, 1, 10, 0)

\* !strncmp(s, "all", 3)
strncmp_all(s) == Len(s) >= 3 /\ SubSeq(s, 1, 3) = <<"a", "l", "l">>

\* std::strchr(s, ','): the index of the first comma, 0 for NULL
strchr_comma(s) ==
    IF \E i \in 1..Len(s) : s[i] = ","
    THEN CHOOSE i \in 1..Len(s) : s[i] = "," /\ \A j \in 1..(i - 1) : s[j] # ","
    ELSE 0

\* the string that starts at sep + 1
AfterSep(s, sep) == SubSeq(s, sep + 1, Len(s))

\* variant: the "all,all" test is missing
case_OptIgnore_no_all_all_check(arg, ila, iop) ==
    LET all_la == strncmp_all(arg)
        sep == strchr_comma(arg)
        all_opcodes == IF sep # 0 THEN strncmp_all(AfterSep(arg, sep)) ELSE TRUE
        la == IF all_la THEN 0 ELSE strtoul(arg)
        la_mask == IF all_la THEN 65535 ELSE Shl(1, la)
        opcode == strtoul(AfterSep(arg, sep))
    IN  IF ~all_la /\ la > 15
        THEN [status |-> "return 1", ignore_la |-> ila, ignore_opcode |-> iop]
        ELSE IF ~all_opcodes
        THEN IF opcode > 255
             THEN [status |-> "return 1", ignore_la |-> ila, ignore_opcode |-> iop]
             ELSE [status |-> "break", ignore_la |-> ila,
                   ignore_opcode |-> [iop EXCEPT ![opcode] = BitOr(@, la_mask)]]
        ELSE [status |-> "break", ignore_la |-> [ila EXCEPT ![la] = TRUE],
              ignore_opcode |-> iop]

\* lines 396-431, case OptIgnore: the outcome ("break" or "return 1") and the
\* two ignore tables after it
case_OptIgnore(arg, ila, iop) ==
    LET all_la == strncmp_all(arg)
        sep == strchr_comma(arg)
        all_opcodes == IF sep # 0 THEN strncmp_all(AfterSep(arg, sep)) ELSE TRUE
        la == IF all_la THEN 0 ELSE strtoul(arg)
        la_mask == IF all_la THEN 65535 ELSE Shl(1, la)
        opcode == strtoul(AfterSep(arg, sep))
    IN  IF ~all_la /\ la > 15
        THEN [status |-> "return 1", ignore_la |-> ila, ignore_opcode |-> iop]
        ELSE IF ~all_opcodes
        THEN IF opcode > 255
             THEN [status |-> "return 1", ignore_la |-> ila, ignore_opcode |-> iop]
             ELSE [status |-> "break", ignore_la |-> ila,
                   ignore_opcode |-> [iop EXCEPT ![opcode] = BitOr(@, la_mask)]]
        ELSE IF all_la /\ all_opcodes
        THEN [status |-> "return 1", ignore_la |-> ila, ignore_opcode |-> iop]
        ELSE [status |-> "break", ignore_la |-> [ila EXCEPT ![la] = TRUE],
              ignore_opcode |-> iop]

\* Arguments given to --ignore.
Str_all_all == <<"a", "l", "l", ",", "a", "l", "l">>
Str_all == <<"a", "l", "l">>
OptargIn ==
    { Str_all_all,
      Str_all,
      <<"a", "l", "l", ",", "5">>,
      <<"a", "l", "l", ",", "0", "x", "8", "2">>,
      <<"3", ",", "a", "l", "l">>,
      <<"3">>,
      <<"3", ",", "5">>,
      <<"4", ",", "5">>,
      <<"1", "5", ",", "2", "5", "5">>,
      <<"1", "6", ",", "5">>,
      <<"3", ",", "2", "5", "6">>,
      <<"0", "1", "0", ",", "0", "x", "1", "0">>,
      <<"a", "l", "l", "x", ",", "a", "l", "l", "y">>,
      <<"4", ",">>,
      <<",">> }

MaxOpts == 2
EXIT_FAILURE == 1

\* getopt_long returns OptIgnore ('i') with its argument
OptIgnore ==
    /\ mpc = "getopt"
    /\ nopts < MaxOpts
    /\ \E arg \in OptargIn :
         LET r == case_OptIgnore(arg, ignore_la, ignore_opcode)
         IN  /\ optarg' = arg
             /\ ignore_la' = r.ignore_la
             /\ ignore_opcode' = r.ignore_opcode
             /\ IF r.status = "return 1"
                THEN mpc' = "exited" /\ exit_status' = 1
                ELSE mpc' = "getopt" /\ exit_status' = exit_status
    /\ ch' = "OptIgnore"
    /\ nopts' = nopts + 1
    /\ UNCHANGED <<fd, adapter_ops>>
    /\ UNCHANGED sadvars
    /\ UNCHANGED trkvars

\* getopt_long returns an option that only sets a flag or a name
OptOther ==
    /\ mpc = "getopt"
    /\ nopts < MaxOpts
    /\ ch' = "OptOther"
    /\ nopts' = nopts + 1
    /\ UNCHANGED <<mpc, optarg, ignore_la, ignore_opcode, exit_status, fd, adapter_ops>>
    /\ UNCHANGED sadvars
    /\ UNCHANGED trkvars

\* OptHelp (return 0) and OptVersion (std::exit(EXIT_SUCCESS))
OptHelpOrVersion ==
    /\ mpc = "getopt"
    /\ nopts < MaxOpts
    /\ ch' = "OptHelp"
    /\ nopts' = nopts + 1
    /\ mpc' = "exited"
    /\ exit_status' = 0
    /\ UNCHANGED <<optarg, ignore_la, ignore_opcode, fd, adapter_ops>>
    /\ UNCHANGED sadvars
    /\ UNCHANGED trkvars

\* getopt_long returns ':' or '?': return 1
OptInvalid ==
    /\ mpc = "getopt"
    /\ nopts < MaxOpts
    /\ ch' = "?"
    /\ nopts' = nopts + 1
    /\ mpc' = "exited"
    /\ exit_status' = 1
    /\ UNCHANGED <<optarg, ignore_la, ignore_opcode, fd, adapter_ops>>
    /\ UNCHANGED sadvars
    /\ UNCHANGED trkvars

\* getopt_long returns -1; lines 454-461: left-over arguments make main return 1
EndOfOptions ==
    /\ mpc = "getopt"
    /\ ch' = "-1"
    /\ \E leftover \in BOOLEAN :
         IF leftover
         THEN mpc' = "exited" /\ exit_status' = 1
         ELSE mpc' = "open" /\ exit_status' = exit_status
    /\ UNCHANGED <<nopts, optarg, ignore_la, ignore_opcode, fd, adapter_ops>>
    /\ UNCHANGED sadvars
    /\ UNCHANGED trkvars

\* lines 463-478: find and open the device, or std::exit(EXIT_FAILURE)
OpenAdapter ==
    /\ mpc = "open"
    /\ \E newfd \in {-1, 3} :
         /\ fd' = newfd
         /\ IF newfd < 0
            THEN mpc' = "exited" /\ exit_status' = EXIT_FAILURE
            ELSE mpc' = "opened" /\ exit_status' = exit_status
    /\ UNCHANGED <<nopts, ch, optarg, ignore_la, ignore_opcode, adapter_ops>>
    /\ UNCHANGED sadvars
    /\ UNCHANGED trkvars

\* lines 484-502: the four doioctl calls of main
NumMainIoctls == 4
AdapterOp ==
    /\ mpc = "opened"
    /\ adapter_ops < NumMainIoctls
    /\ adapter_ops' = adapter_ops + 1
    /\ UNCHANGED <<mpc, nopts, ch, optarg, ignore_la, ignore_opcode, exit_status, fd>>
    /\ UNCHANGED sadvars
    /\ UNCHANGED trkvars

\* struct node node = { }; int fd = -1;
InitCli ==
    /\ mpc = "getopt"
    /\ nopts = 0
    /\ ch = "none"
    /\ optarg = <<>>
    /\ ignore_la = [a \in LogAddrs |-> FALSE]
    /\ ignore_opcode = [o \in 0..255 |-> 0]
    /\ exit_status = -1
    /\ fd = -1
    /\ adapter_ops = 0
    /\ SadOff
    /\ TrkOff

NextCli ==
    \/ OptIgnore
    \/ OptOther
    \/ OptHelpOrVersion
    \/ OptInvalid
    \/ EndOfOptions
    \/ OpenAdapter
    \/ AdapterOp

SpecCli == InitCli /\ [][NextCli]_vars


(***************************************************************************)
(* cec_named_ioctl: properties.  In a step of CecNamedIoctl the unprimed   *)
(* la_info is the tracker before the call and the primed one after it.     *)
(***************************************************************************)
HandlerStep == pc = "returned" /\ pc' = "done"
Initiator == call.msg0 \div 16
Destination == call.msg0 % 16
TxOk == Bit(call.tx_status, 0) = 1
RxOk == Bit(call.rx_status, 0) = 1
RxFeatureAbort == Bit(call.rx_status, 2) = 1
Changed == { a \in LogAddrs : la_info'[a] # la_info[a] }

C2_FailureLeavesTracker ==
    [][HandlerStep =>
         /\ call.retval # 0 =>
              /\ la_info' = la_info
              /\ ret' # 0
              /\ ret' = IF call.retval = -1 THEN call.errno ELSE -1
         /\ (ret' = 0) <=> (call.retval = 0)
         /\ nioctl' = 1]_vars

\* a failed receive whose message would otherwise have qualified
C2_Witness ==
    /\ pc = "done"
    /\ call.retval = -1
    /\ call.request = "CEC_RECEIVE"
    /\ call.rx_status = 1
    /\ call.msg0 \div 16 = 3
    /\ ret = 22
    /\ la_info[3] # call.rx_ts

C4_NoReplyExpected ==
    [][HandlerStep =>
         /\ (/\ call.retval = 0
             /\ call.request = "CEC_TRANSMIT"
             /\ TxOk
             /\ Destination # 15
             /\ call.timeout = 0)
            => la_info' = [la_info EXCEPT ![Destination] = call.tx_ts]
         /\ Cardinality(Changed) <= 1]_vars

\* scenario 3: transmit to address 3 at timestamp 2 with a clean rx status
C4_Witness ==
    /\ pc = "done"
    /\ call.retval = 0
    /\ call.request = "CEC_TRANSMIT"
    /\ call.tx_status = 1
    /\ call.timeout = 0
    /\ call.rx_status = 1
    /\ call.msg0 = 16 * 0 + 3
    /\ call.tx_ts = 2
    /\ call.rx_ts = 1
    /\ la_info[3] = 2
    /\ la_info[0] = 0

\* C5: a successful receive sets the initiator's entry to rx_ts if and only if
\* the initiator is not 15 and the rx status has OK; otherwise nothing changes
\* (so entry 15 is never written by a receive, nor is a FEATURE_ABORT-only one).
C5_Receive ==
    [][(/\ HandlerStep
        /\ call.retval = 0
        /\ call.request = "CEC_RECEIVE")
       => /\ IF Initiator # 15 /\ RxOk
             THEN la_info' = [la_info EXCEPT ![Initiator] = call.rx_ts]
             ELSE la_info' = la_info
          /\ la_info'[15] = la_info[15]
          /\ (call.rx_status = 4 => la_info' = la_info)]_vars

\* a clean receive from address 3 was recorded
C5_Witness ==
    /\ pc = "done"
    /\ call.retval = 0
    /\ call.request = "CEC_RECEIVE"
    /\ call.rx_status = 5
    /\ call.msg0 \div 16 = 3
    /\ call.rx_ts = 2
    /\ call.tx_ts = 0
    /\ la_info[3] = 2

C7_HasOpcodePart(arg) ==
    \E i \in 1..Len(arg) :
      /\ arg[i] = ","
      /\ \A j \in 1..(i - 1) : arg[j] # ","
      /\ ~(Len(arg) >= i + 3 /\ arg[i + 1] = "a" /\ arg[i + 2] = "l" /\ arg[i + 3] = "l")

C7_LaMasks == {65535} \cup { Shl(1, a) : a \in LogAddrs }

\* C7: the rule "all,all" (and a bare "all") makes main return 1 before the
\* adapter is opened or used and records nothing; every accepted rule either
\* ORs an address mask into one ignore_opcode entry or sets one ignore_la
\* entry, never both.
C7_IgnoreRules ==
    /\ [][(mpc = "getopt" /\ ch' = "OptIgnore") =>
            /\ optarg' \in {Str_all_all, Str_all} =>
                 /\ mpc' = "exited"
                 /\ exit_status' = 1
                 /\ fd' = -1
                 /\ adapter_ops' = 0
                 /\ ignore_la' = ignore_la
                 /\ ignore_opcode' = ignore_opcode
            /\ mpc' = "getopt" =>
                 IF C7_HasOpcodePart(optarg')
                 THEN /\ ignore_la' = ignore_la
                      /\ \E o \in 0..255, m \in C7_LaMasks :
                           ignore_opcode' = [ignore_opcode EXCEPT ![o] = BitOr(@, m)]
                 ELSE /\ ignore_opcode' = ignore_opcode
                      /\ \E a \in LogAddrs :
                           ignore_la' = [ignore_la EXCEPT ![a] = TRUE]]_vars
    /\ [](mpc = "exited" /\ ch = "OptIgnore" => fd = -1 /\ adapter_ops = 0)

\* "all,all" was rejected after an accepted rule had been recorded
C7_Witness ==
    /\ mpc = "exited"
    /\ ch = "OptIgnore"
    /\ optarg = Str_all_all
    /\ exit_status = 1
    /\ fd = -1
    /\ adapter_ops = 0
    /\ nopts = 2
    /\ ignore_opcode[5] = 8

(***************************************************************************)
(* sad_encode: properties.                                                 *)
(***************************************************************************)
B1 == DescByte(descriptor, 1)
B2 == DescByte(descriptor, 2)
B3 == DescByte(descriptor, 3)

\* C8 as stated: for formatCode 0, b1 = (numChannels - 1) & 0x07, b2 = 0 and
\* b3 = 0 for every sampleFreqMask.
C8_ReservedAllZero ==
    (encoded /\ sad.format_code = 0) =>
        /\ B1 = (sad.num_channels + 7) % 8
        /\ B2 = 0
        /\ B3 = 0

\* C8: for formatCode 0, b1 = (numChannels - 1) & 0x07, b2 = sampleFreqMask
\* and b3 = 0, whatever the other fields hold.
C8_Reserved ==
    (encoded /\ sad.format_code = 0) =>
        /\ B1 = (sad.num_channels + 7) % 8
        /\ B2 = sad.sample_freq_mask
        /\ B3 = 0

\* a reserved-code descriptor with a sample-rate mask and a bitrate
C8_Witness ==
    /\ encoded
    /\ sad.format_code = 0
    /\ sad.num_channels = 2
    /\ sad.sample_freq_mask = 255
    /\ sad.max_bitrate = 200
    /\ descriptor = 1 * 65536 + 255 * 256

\* the fields the dispatch reads for a format code (and extension type)
C9_Selected(s) ==
    LET c == s.format_code
        t == s.extension_type_code
    IN  IF c = 1 THEN {"bit_depth_mask"}
        ELSE IF c \in 2..8 THEN {"max_bitrate"}
        ELSE IF c \in 9..13 THEN {"format_dependent"}
        ELSE IF c = 14 THEN {"wma_profile"}
        ELSE IF c = 15
        THEN {"extension_type_code"} \cup
             (IF t \in {4, 5, 6} THEN {"frame_length_mask"}
              ELSE IF t \in {8, 10} THEN {"frame_length_mask", "mps"}
              ELSE IF t \in {11, 12} THEN {"format_dependent", "bit_depth_mask"}
              ELSE IF t = 13 THEN {"bit_depth_mask"}
              ELSE {})
        ELSE {}

\* the descriptors with the same numChannels, formatCode and sampleFreqMask
C9_Others(s) ==
    { o \in [num_channels : {s.num_channels}, format_code : {s.format_code},
             sample_freq_mask : {s.sample_freq_mask}, bit_depth_mask : BitDepthIn,
             max_bitrate : MaxBitrateIn, format_dependent : FormatDependentIn,
             wma_profile : WmaProfileIn,
             extension_type_code : ExtTypeOtherIn \cup {s.extension_type_code},
             frame_length_mask : FrameLengthIn, mps : MpsIn] :
        \A f \in C9_Selected(s) : o[f] = s[f] }

\* C9: fields the dispatch does not select never reach the output: descriptors
\* that agree on numChannels, formatCode, sampleFreqMask and the selected
\* field(s) encode alike; byte 3 is bitDepthMask & 7 (code 1), maxBitrate
\* (2..8), formatDependent (9..13), wmaProfile & 3 (14); the result is
\* (b1 << 16) | (b2 << 8) | b3 with bit 23 zero.
C9_IrrelevantFieldsIgnored ==
    encoded =>
        /\ \A o \in C9_Others(sad) : sad_encode(o) = descriptor
        /\ sad.format_code = 1 => B3 = sad.bit_depth_mask % 8
        /\ sad.format_code \in 2..8 => B3 = sad.max_bitrate
        /\ sad.format_code \in 9..13 => B3 = sad.format_dependent
        /\ sad.format_code = 14 => B3 = sad.wma_profile % 4
        /\ B1 = ((sad.num_channels + 7) % 8) + 8 * (sad.format_code % 16)
        /\ B2 = sad.sample_freq_mask
        /\ descriptor = B1 * 65536 + B2 * 256 + B3
        /\ Bit(descriptor, 23) = 0

\* a bitrate format whose other byte-3 fields hold different values
C9_Witness ==
    /\ encoded
    /\ sad.format_code = 3
    /\ sad.max_bitrate = 200
    /\ sad.format_dependent = 255
    /\ sad.bit_depth_mask = 250
    /\ sad.wma_profile = 253
    /\ B3 = 200

\* C10: for formatCode 15, b3 bits 3..7 are extensionTypeCode & 0x1f and bits
\* 0..2 follow the type: 4,5,6: bit 0 zero, bits 1..2 frameLengthMask & 3;
\* 8,10: the same with bit 0 = mps & 1; MPEG-H 3D Audio, AC-4:
\* (formatDependent | bitDepthMask) & 7; L-PCM 3D Audio: bitDepthMask & 7;
\* any other type (also above 31): zero.
C10_Extended ==
    (encoded /\ sad.format_code = 15) =>
        LET t == sad.extension_type_code
        IN  /\ B3 \div 8 = t % 32
            /\ t \in {4, 5, 6} =>
                 /\ Bit(B3, 0) = 0
                 /\ (B3 % 8) \div 2 = sad.frame_length_mask % 4
            /\ t \in {8, 10} =>
                 /\ Bit(B3, 0) = sad.mps % 2
                 /\ (B3 % 8) \div 2 = sad.frame_length_mask % 4
            /\ t \in {SAD_EXT_TYPE_MPEG_H_3D_AUDIO, SAD_EXT_TYPE_AC_4} =>
                 B3 % 8 = BitOr(sad.format_dependent, sad.bit_depth_mask) % 8
            /\ t = SAD_EXT_TYPE_LPCM_3D_AUDIO => B3 % 8 = sad.bit_depth_mask % 8
            /\ t \notin {4, 5, 6, 8, 10, SAD_EXT_TYPE_MPEG_H_3D_AUDIO,
                         SAD_EXT_TYPE_AC_4, SAD_EXT_TYPE_LPCM_3D_AUDIO} =>
                 B3 % 8 = 0

\* type 5 with the mps field set: the bit stays out of byte 3
C10_Witness ==
    /\ encoded
    /\ sad.format_code = 15
    /\ sad.extension_type_code = 5
    /\ sad.frame_length_mask = 2
    /\ sad.mps = 1
    /\ B3 = 5 * 8 + 4

====
